---------------------------- MODULE Spec2Model ----------------------------
(***************************************************************************)
(* Model of the voice assistant's tool layer (src/tools.py) and of the     *)
(* session entrypoint that registers it (src/agent.py).                    *)
(*                                                                         *)
(* The six tools are coroutines run by one asyncio event loop.  A tool     *)
(* body contains no await: from its first statement to its return it keeps *)
(* the loop's thread, also while it sits in a synchronous requests /       *)
(* smtplib / Together call.  The model has one step per blocking           *)
(* operation: the step that issues it (pc = "waiting") and the step in     *)
(* which the remote side answers or fails and the tool runs on to its next *)
(* blocking operation or to its return.                                    *)
(*                                                                         *)
(* Python values that may be None or of another type than str are tagged   *)
(* records; plain TLA+ strings stand for values that are always str.       *)
(* Result texts are those of the source without their leading emoji and    *)
(* with the inline style attributes of the HTML dropped; the backquotes   *)
(* around the saved path are written as single quotes.                     *)
(***************************************************************************)
EXTENDS Integers, Sequences, FiniteSets, TLC

\* ------------------------------------------------------------------ bounds
\* Last second the wall clock reaches.
MaxClock == 1
\* Most tool invocations the runtime has scheduled and not yet started.
MaxPending == 2

\* --------------------------------------------------------- Python values
PyNone == [t |-> "NoneType"]
PyStr(s) == [t |-> "str", v |-> s]
PyInt(s) == [t |-> "int", v |-> s]

\* bool(x) for the values that occur: None, "" and 0 are falsy.
Truthy(x) ==
    CASE x.t = "NoneType" -> FALSE
      [] x.t = "str" -> x.v # ""
      [] x.t = "int" -> x.v # "0"
      [] x.t = "list" -> Len(x.v) > 0
      [] OTHER -> TRUE

\* str(x), as an f-string formats it.
Format(x) ==
    CASE x.t = "NoneType" -> "None"
      [] x.t \in {"str", "int"} -> x.v
      [] OTHER -> "<object>"

Whitespace == {" ", "\n", "\t"}

RECURSIVE LStrip(_)
LStrip(s) ==
    IF Len(s) > 0 /\ SubSeq(s, 1, 1) \in Whitespace
    THEN LStrip(SubSeq(s, 2, Len(s)))
    ELSE s

RECURSIVE RStrip(_)
RStrip(s) ==
    IF Len(s) > 0 /\ SubSeq(s, Len(s), Len(s)) \in Whitespace
    THEN RStrip(SubSeq(s, 1, Len(s) - 1))
    ELSE s

\* str.strip()
Strip(s) == RStrip(LStrip(s))

\* sub in s
Contains(s, sub) ==
    \E i \in 1..(Len(s) - Len(sub) + 1) : SubSeq(s, i, i + Len(sub) - 1) = sub

\* ------------------------------------------------------------ exceptions
\* The classes that the outbound libraries raise, each with its base class.
ExcBase ==
    [ SMTPAuthenticationError |-> "SMTPResponseException",
      SMTPRecipientsRefused   |-> "SMTPException",
      SMTPServerDisconnected  |-> "SMTPException",
      SMTPNotSupportedError   |-> "SMTPException",
      SMTPConnectError        |-> "SMTPResponseException",
      SMTPResponseException   |-> "SMTPException",
      SMTPException           |-> "OSError",
      ConnectionError         |-> "OSError",
      Timeout                 |-> "OSError",
      HTTPError               |-> "OSError",
      gaierror                |-> "OSError",
      PermissionError         |-> "OSError",
      OSError                 |-> "Exception",
      JSONDecodeError         |-> "ValueError",
      binasciiError           |-> "ValueError",
      ValueError              |-> "Exception",
      KeyError                |-> "Exception",
      IndexError              |-> "Exception",
      AttributeError          |-> "Exception",
      TypeError               |-> "Exception",
      Exception               |-> "BaseException" ]

RECURSIVE IsSubclass(_, _)
IsSubclass(c, base) ==
    \/ c = base
    \/ c \in DOMAIN ExcBase /\ IsSubclass(ExcBase[c], base)

Exc(cls, msg) == [cls |-> cls, msg |-> msg]

\* What a try block or a whole tool body ends in.
Return(v) == [kind |-> "return", v |-> v]
Raise(e) == [kind |-> "raise", e |-> e]
Ok(v) == [kind |-> "ok", v |-> v]


\* try: body / except <classes>: handler -- the first clause whose class the
\* exception is an instance of handles it; with none, it propagates.
RECURSIVE FirstMatch(_, _, _)
FirstMatch(clauses, e, i) ==
    IF i > Len(clauses) THEN 0
    ELSE IF IsSubclass(e.cls, clauses[i]) THEN i
    ELSE FirstMatch(clauses, e, i + 1)

\* ------------------------------------------------------------ get_weather
Cities == {"London", "Oslo"}

\* What requests.get can end in: a response (status, text) or a raised error.
Response(status, text) == [kind |-> "response", status |-> status, text |-> text]

WeatherReplies ==
    {Response(st, tx) : st \in {200, 203, 404}, tx \in {"London: +20C\n", "  "}}
    \cup {Raise(Exc("ConnectionError", "Max retries exceeded"))}

\* if response.status_code == 200
StatusOkAny2xx(status) == status \in 200..299
StatusOk(status) == status = 200

WeatherFailed(city) == "Could not retrieve weather for " \o city \o "."
WeatherError(city) == "An error occurred while retrieving weather for " \o city \o "."

\* The try block, from the response on.
GetWeatherBody(city, r) ==
    IF r.kind = "raise" THEN r
    ELSE IF StatusOk(r.status) THEN Return(PyStr(Strip(r.text)))
    ELSE Return(PyStr(WeatherFailed(city)))

GetWeatherClauses == <<"Exception">>

GetWeatherOutcome(city, r) ==
    LET b == GetWeatherBody(city, r) IN
    IF b.kind = "raise" /\ FirstMatch(GetWeatherClauses, b.e, 1) = 1
    THEN Return(PyStr(WeatherError(city)))
    ELSE b

\* ------------------------------------------- chat completions (OpenRouter)
ChatTools == {"search_web", "generate_code", "write_essay"}

JDict(f) == [t |-> "dict", v |-> f]
JList(q) == [t |-> "list", v |-> q]

GoodCompletion ==
    JDict([choices |-> JList(<<JDict([message |->
              JDict([content |-> PyStr(" Paris is the capital. ")])])>>)])
NoChoices == JDict([error |-> PyStr("rate limited")])
EmptyChoices == JDict([choices |-> JList(<<>>)])
NullContent ==
    JDict([choices |-> JList(<<JDict([message |->
              JDict([content |-> PyNone])])>>)])
\* A body that is not JSON: response.json() raises on it.
NotJson == [t |-> "invalid"]

ChatReplies ==
    {[kind |-> "response", status |-> st, body |-> b] :
        st \in {200, 429},
        b \in {GoodCompletion, NoChoices, EmptyChoices, NullContent, NotJson}}
    \cup {Raise(Exc("ConnectionError", "Connection refused"))}

\* response.raise_for_status()
RaiseForStatus(status) ==
    IF status >= 400 /\ status < 600
    THEN Raise(Exc("HTTPError", "429 Client Error"))
    ELSE Ok(PyNone)

\* response.json()
ParseJson(body) ==
    IF body.t = "invalid"
    THEN Raise(Exc("JSONDecodeError", "Expecting value: line 1 column 1 (char 0)"))
    ELSE Ok(body)

\* x[key]
GetKey(x, key) ==
    IF x.t = "dict"
    THEN IF key \in DOMAIN x.v THEN Ok(x.v[key]) ELSE Raise(Exc("KeyError", key))
    ELSE IF x.t = "list"
         THEN Raise(Exc("TypeError", "list indices must be integers"))
         ELSE Raise(Exc("TypeError", "object is not subscriptable"))

\* x[0]
GetFirst(x) ==
    IF x.t = "list"
    THEN IF Len(x.v) > 0 THEN Ok(x.v[1])
         ELSE Raise(Exc("IndexError", "list index out of range"))
    ELSE IF x.t = "dict" THEN Raise(Exc("KeyError", "0"))
         ELSE Raise(Exc("TypeError", "object is not subscriptable"))

\* x.strip()
CallStrip(x) ==
    IF x.t = "str" THEN Ok(PyStr(Strip(x.v)))
    ELSE Raise(Exc("AttributeError", "object has no attribute 'strip'"))

Then(r, F(_)) == IF r.kind = "ok" THEN F(r.v) ELSE r

\* data["choices"][0]["message"]["content"].strip()
ExtractContent(data) ==
    Then(GetKey(data, "choices"), LAMBDA a :
    Then(GetFirst(a), LAMBDA b :
    Then(GetKey(b, "message"), LAMBDA c :
    Then(GetKey(c, "content"), LAMBDA d : CallStrip(d)))))

\* The try block of a chat tool, from the response on.
ChatBody(r) ==
    IF r.kind = "raise" THEN r
    ELSE Then(RaiseForStatus(r.status), LAMBDA u :
         Then(ParseJson(r.body), LAMBDA data :
         LET c == ExtractContent(data) IN
         IF c.kind = "ok" THEN Return(c.v) ELSE c))

ChatMissingKey(t) ==
    CASE t = "search_web" -> "OpenRouter API key not found. Please check your .env file."
      [] t = "generate_code" -> "Missing OpenRouter API key. Please check your .env file."
      [] t = "write_essay" -> "OpenRouter API key is missing. Please check your .env file."

ChatErrorPrefix(t) ==
    CASE t = "search_web" -> "Error talking to OpenRouter AI: "
      [] t = "generate_code" -> "Code generation failed: "
      [] t = "write_essay" -> "Essay generation failed: "

ChatClauses == <<"Exception">>

ChatOutcome(t, r) ==
    LET b == ChatBody(r) IN
    IF b.kind = "raise" /\ FirstMatch(ChatClauses, b.e, 1) = 1
    THEN Return(PyStr(ChatErrorPrefix(t) \o b.e.msg))
    ELSE b

\* -------------------------------------------------------------- send_email
\* The blocking calls on the SMTP server object, in program order.
SmtpOps == <<"connect", "starttls", "login", "sendmail", "quit">>

\* What each call can raise (smtplib), besides succeeding.
SmtpFaults(o) ==
    CASE o = "connect" ->
            {Exc("gaierror", "Name or service not known"),
             Exc("SMTPConnectError", "(421, 'Service not available')")}
      [] o = "starttls" ->
            {Exc("SMTPNotSupportedError", "STARTTLS extension not supported by server."),
             Exc("SMTPServerDisconnected", "Connection unexpectedly closed")}
      [] o = "login" ->
            {Exc("SMTPAuthenticationError", "(535, 'Username and Password not accepted')"),
             Exc("SMTPNotSupportedError", "SMTP AUTH extension not supported by server.")}
      [] o = "sendmail" ->
            {Exc("SMTPRecipientsRefused", "{'a@x.org': (550, 'User unknown')}"),
             Exc("TypeError", "expected string or bytes-like object")}
      [] o = "quit" ->
            {Exc("SMTPServerDisconnected", "Connection unexpectedly closed")}

NoSession == [open |-> FALSE, log |-> <<>>, sent |-> <<>>]

\* The server object after call o succeeded.
SmtpDone(s, o, sender, recipients) ==
    [open |-> (o # "quit"),
     log  |-> Append(s.log, o),
     sent |-> IF o = "sendmail" THEN Append(s.sent, <<sender, recipients>>)
              ELSE s.sent]

\* The server object after call o raised e: smtplib closes the socket itself
\* when it finds the peer gone, and opens none when the connection fails.
SmtpFailed(s, o, e) ==
    [s EXCEPT !.open = s.open /\ e.cls # "SMTPServerDisconnected"]

\* recipients = [to_email]; if cc_email: recipients.append(cc_email)
Recipients(to, cc) == IF Truthy(cc) THEN <<to, cc.v>> ELSE <<to>>

\* if not gmail_user or not gmail_password
EmailCredsMissingBoth(user, password) == ~Truthy(user) /\ ~Truthy(password)
EmailCredsMissing(user, password) == ~Truthy(user) \/ ~Truthy(password)

EmailNotConfigured == "Email sending failed: Gmail credentials not configured."
EmailSent(to) == "Email sent successfully to " \o to
EmailAuthError ==
    "Email sending failed: Authentication error. Please check your Gmail credentials."
EmailSmtpError(e) == "Email sending failed: SMTP error - " \o e.msg
EmailOtherError(e) == "An error occurred while sending email: " \o e.msg

\* The except clauses of send_email, in source order.
SendEmailClausesSwapped == <<"SMTPException", "SMTPAuthenticationError", "Exception">>
SendEmailClauses == <<"SMTPAuthenticationError", "SMTPException", "Exception">>

SendEmailHandler(e) ==
    LET i == FirstMatch(SendEmailClauses, e, 1) IN
    IF i = 0 THEN Raise(e)
    ELSE CASE SendEmailClauses[i] = "SMTPAuthenticationError" ->
                 Return(PyStr(EmailAuthError))
           [] SendEmailClauses[i] = "SMTPException" ->
                 Return(PyStr(EmailSmtpError(e)))
           [] SendEmailClauses[i] = "Exception" ->
                 Return(PyStr(EmailOtherError(e)))

\* ------------------------------------------------------- generate_ai_image
\* The prompts tried: str values around the three-character limit, and
\* values of other types.
Prompts ==
    {PyStr(""), PyStr(" a "), PyStr("  "), PyStr("cat"), PyStr(" a cat\n"),
     PyNone, PyInt("0"), PyInt("123")}

\* not prompt or not isinstance(prompt, str) or len(prompt.strip()) < 3
MinPromptLen == 3
PromptRejectedUntrimmed(prompt) ==
    \/ ~Truthy(prompt)
    \/ prompt.t # "str"
    \/ Len(prompt.v) < MinPromptLen
PromptRejected(prompt) ==
    \/ ~Truthy(prompt)
    \/ prompt.t # "str"
    \/ Len(Strip(prompt.v)) < MinPromptLen

ImagePromptInvalid == "Please provide a clear description of the image you want."
ImageMissingKey == "Together AI API key not found. Please check your .env file."
ImageNoData == "No image data was returned. Try a different prompt."
ImageNoOutput == "Image generation failed: no usable output."
ImageError(e) == "Image generation failed: " \o e.msg

\* base64.b64decode(s): characters outside the alphabet are skipped, a
\* completed padding ends the input, an incomplete last group is an error.
B64Alphabet == "ABCDEFGHIJKLMNOPQRSTUVWXYZabcdefghijklmnopqrstuvwxyz0123456789+/"

B64Value(ch) == (CHOOSE i \in 1..Len(B64Alphabet) : SubSeq(B64Alphabet, i, i) = ch) - 1

IsB64Char(ch) == \E i \in 1..Len(B64Alphabet) : SubSeq(B64Alphabet, i, i) = ch

\* The 6-bit values of s, read up to the padding that completes a group.
RECURSIVE B64Sextets(_, _, _, _)
B64Sextets(s, i, acc, pads) ==
    IF i > Len(s) THEN acc
    ELSE LET ch == SubSeq(s, i, i) IN
         IF ch = "="
         THEN IF Len(acc) % 4 >= 2 /\ (Len(acc) % 4) + pads + 1 >= 4
              THEN acc \o [k \in 1..(4 - (Len(acc) % 4)) |-> -1]
              ELSE B64Sextets(s, i + 1, acc, pads + 1)
         ELSE IF IsB64Char(ch)
              THEN B64Sextets(s, i + 1, Append(acc, B64Value(ch)), 0)
              ELSE B64Sextets(s, i + 1, acc, pads)

\* The bytes of groups of four 6-bit values; -1 marks a padded position.
RECURSIVE B64Bytes(_)
B64Bytes(q) ==
    IF Len(q) = 0 THEN <<>>
    ELSE LET a == q[1]
             b == q[2]
             c == q[3]
             d == q[4]
             b1 == a * 4 + (b \div 16)
             b2 == (b % 16) * 16 + (IF c = -1 THEN 0 ELSE c \div 4)
             b3 == ((IF c = -1 THEN 0 ELSE c) % 4) * 64 + (IF d = -1 THEN 0 ELSE d)
         IN (IF c = -1 THEN <<b1>> ELSE IF d = -1 THEN <<b1, b2>> ELSE <<b1, b2, b3>>)
            \o B64Bytes(SubSeq(q, 5, Len(q)))

B64Decode(s) ==
    LET q == B64Sextets(s, 1, <<>>, 0) IN
    IF Len(q) % 4 # 0
    THEN Raise(Exc("binasciiError", "Incorrect padding"))
    ELSE Ok(B64Bytes(q))

\* datetime.now().strftime("%Y%m%d_%H%M%S"), the clock counting the seconds
\* of one day.
Digit(d) == SubSeq("0123456789", d + 1, d + 1)
TwoDigits(n) == Digit((n \div 10) % 10) \o Digit(n % 10)
StrftimeNoSeparator(now) ==
    "20250101" \o TwoDigits(now \div 3600) \o TwoDigits((now \div 60) % 60)
               \o TwoDigits(now % 60)
Strftime(now) ==
    "20250101_" \o TwoDigits(now \div 3600) \o TwoDigits((now \div 60) % 60)
                \o TwoDigits(now % 60)

PicturesFolder == "/home/user/Pictures"
ImagePath(now) == PicturesFolder \o "/ai_image_" \o Strftime(now) \o ".png"

\* The image directory is a set of files, each a path with its bytes.
File(path, bytes) == [path |-> path, bytes |-> bytes]

\* open(image_path, "wb"): creates the file or truncates the one there.
OpenWb(files, path) ==
    {f \in files : f.path # path} \cup {File(path, <<>>)}

\* f.write(image_bytes)
WriteBytes(files, path, bytes) ==
    {f \in files : f.path # path} \cup {File(path, bytes)}

ImageSaved(path, b64, prompt) ==
    "Image generated successfully!<br>Saved to: '" \o path \o "'<br>Preview:<br>"
    \o "<img src=\"data:image/png;base64," \o b64 \o "\" alt=\"" \o prompt \o "\"/><br>"
    \o "<a href=\"data:image/png;base64," \o b64 \o "\" download=\"ai_image.png\">Download Image</a>"

ImageByUrl(url, prompt) ==
    "Image generated successfully via URL!<br>Preview:<br>"
    \o "<img src=\"" \o url \o "\" alt=\"" \o prompt \o "\"/><br>"
    \o "<a href=\"" \o url \o "\" download=\"ai_image.png\">Download Image</a>"

\* The response object of client.images.generate and its first data item.
Obj(f) == [t |-> "obj", v |-> f]
HasAttr(x, name) == x.t = "obj" /\ name \in DOMAIN x.v
GetAttr(x, name, default) == IF HasAttr(x, name) THEN x.v[name] ELSE default

ImageItem(b64, url) == Obj([b64_json |-> b64, url |-> url])
ImageResponse(item) == Obj([data |-> JList(<<item>>)])

Payloads == {PyNone, PyStr(""), PyStr("QQ=="), PyStr("Qg=="), PyStr("QUJ")}
Urls == {PyNone, PyStr("https://img.example/1.png")}

ImageReplies ==
    {Ok(ImageResponse(ImageItem(b, u))) : b \in Payloads, u \in Urls}
    \cup {Ok(ImageResponse(Obj([index |-> PyInt("0")]))),
          Ok(Obj([data |-> JList(<<>>)])),
          Ok(Obj([data |-> PyNone])),
          Ok(Obj([id |-> PyStr("img-1")])),
          Ok(PyNone),
          Raise(Exc("ConnectionError", "Connection error."))}

\* Whether saving the file fails: os.makedirs or open raises, and nothing is
\* created.
FsFaults == {"none", "open"}

\* Whether the reply leads the tool to decode and save an image, so that a
\* fault of the file system can show at all.
ReachesSave(r) ==
    /\ r.kind = "ok"
    /\ LET resp == r.v IN
       /\ Truthy(resp) /\ HasAttr(resp, "data") /\ Truthy(resp.v.data)
       /\ LET image_base64 == GetAttr(resp.v.data.v[1], "b64_json", PyNone) IN
          Truthy(image_base64) /\ B64Decode(image_base64.v).kind = "ok"

Step(out, files, opened) == [out |-> out, files |-> files, opened |-> opened]

\* The try block of generate_ai_image from the response on: the outcome,
\* the image directory afterwards and the number of files opened for writing.
ImageBody(prompt, resp, files, now, fault) ==
    IF ~Truthy(resp) \/ ~HasAttr(resp, "data") \/ ~Truthy(resp.v.data)
    THEN Step(Return(PyStr(ImageNoData)), files, 0)
    ELSE
    LET image_info == resp.v.data.v[1]
        image_base64 == GetAttr(image_info, "b64_json", PyNone)
        image_url == GetAttr(image_info, "url", PyNone)
        image_path == ImagePath(now)
    IN
    IF ~Truthy(image_base64) /\ ~Truthy(image_url)
    THEN Step(Return(PyStr(ImageNoOutput)), files, 0)
    ELSE IF Truthy(image_base64)
    THEN LET image_bytes == B64Decode(image_base64.v) IN
         IF image_bytes.kind = "raise" THEN Step(image_bytes, files, 0)
         ELSE IF fault = "open"
         THEN Step(Raise(Exc("PermissionError", "[Errno 13] Permission denied")),
                   files, 0)
         ELSE Step(Return(PyStr(ImageSaved(image_path, image_base64.v, Format(prompt)))),
                   WriteBytes(OpenWb(files, image_path), image_path, image_bytes.v), 1)
    ELSE IF Truthy(image_url)
    THEN Step(Return(PyStr(ImageByUrl(Format(image_url), Format(prompt)))), files, 0)
    ELSE Step(Return(PyNone), files, 0)

\* except Exception as e
ImageClausesNarrow == <<"OSError">>
ImageClauses == <<"Exception">>

ImageHandler(e) ==
    IF FirstMatch(ImageClauses, e, 1) = 1
    THEN Return(PyStr(ImageError(e)))
    ELSE Raise(e)

\* ------------------------------------------------------------------ state
VARIABLES
    env,         \* the process environment, read with os.getenv
    entry,       \* where the entrypoint coroutine of agent.py stands
    pending,     \* tool invocations scheduled on the loop and not yet started
    running,     \* TRUE while a tool body holds the event loop's thread
    tool,        \* the tool of the current (or last) call
    args,        \* its arguments
    recipients,  \* send_email's local recipient list
    pc,          \* "none", "waiting" (in a blocking call), "returned", "raised"
    op,          \* the blocking call it is or was last in
    result,      \* what the call handed back to the runtime
    seen,        \* what the call's external dependency answered
    outbound,    \* outbound operations the call has issued
    writes,      \* files the call has opened for writing
    smtp,        \* the call's SMTP server object
    fs,          \* the image directory: the files in it
    clock        \* wall clock, in seconds

vars == <<env, entry, pending, running, tool, args, recipients, pc, op, result, seen,
          outbound, writes, smtp, fs, clock>>

EnvNames == {"OPENROUTER_API_KEY", "TOGETHER_API_KEY", "GMAIL_USER", "GMAIL_APP_PASSWORD"}
\* os.getenv gives None for a variable that is not set and "" for one that
\* .env leaves blank.  Each variable is either set or missing; the two ways
\* of missing are spread over the variables.
EnvValues ==
    [ OPENROUTER_API_KEY |-> {PyNone, PyStr("sk-or-1")},
      TOGETHER_API_KEY   |-> {PyStr(""), PyStr("tg-1")},
      GMAIL_USER         |-> {PyNone, PyStr("me@gmail.com")},
      GMAIL_APP_PASSWORD |-> {PyStr(""), PyStr("app-pw")} ]

NoReply == [kind |-> "none"]
NoArgs == [none |-> TRUE]

Init ==
    /\ env \in {e \in [EnvNames -> UNION {EnvValues[n] : n \in EnvNames}] :
                    \A n \in EnvNames : e[n] \in EnvValues[n]}
    /\ entry = "connect"
    /\ pending = 0
    /\ running = FALSE
    /\ tool = "none"
    /\ args = NoArgs
    /\ recipients = <<>>
    /\ pc = "none"
    /\ op = "none"
    /\ result = PyNone
    /\ seen = NoReply
    /\ outbound = 0
    /\ writes = 0
    /\ smtp = NoSession
    /\ fs = {}
    /\ clock = 0

\* -------------------------------------------------------------- event loop
\* The entrypoint coroutine: each await hands the loop back, so each of its
\* steps needs the loop's thread to be free.
EntryConnect ==
    /\ ~running /\ entry = "connect"
    /\ entry' = "start"
    /\ UNCHANGED <<env, pending, running, tool, args, recipients, pc, op, result, seen,
                   outbound, writes, smtp, fs, clock>>

EntryStart ==
    /\ ~running /\ entry = "start"
    /\ entry' = "greet"
    /\ UNCHANGED <<env, pending, running, tool, args, recipients, pc, op, result, seen,
                   outbound, writes, smtp, fs, clock>>

EntryGreet ==
    /\ ~running /\ entry = "greet"
    /\ entry' = "done"
    /\ UNCHANGED <<env, pending, running, tool, args, recipients, pc, op, result, seen,
                   outbound, writes, smtp, fs, clock>>

\* The runtime, a task of the same loop, schedules a call of a registered tool.
Invoke ==
    /\ ~running /\ entry \in {"greet", "done"}
    /\ pending < MaxPending
    /\ pending' = pending + 1
    /\ UNCHANGED <<env, entry, running, tool, args, recipients, pc, op, result, seen,
                   outbound, writes, smtp, fs, clock>>

\* Time passes, whatever the process does.
Tick ==
    /\ clock < MaxClock
    /\ clock' = clock + 1
    /\ UNCHANGED <<env, entry, pending, running, tool, args, recipients, pc, op, result,
                   seen, outbound, writes, smtp, fs>>

\* The loop can start a scheduled call only when no coroutine is running.
CanStart == ~running /\ pending > 0

\* A call begins: fresh locals, no reply yet, no file opened, no server object.
Begin(t, a) ==
    /\ CanStart
    /\ pending' = pending - 1
    /\ tool' = t
    /\ args' = a
    /\ seen' = NoReply
    /\ writes' = 0
    /\ smtp' = NoSession
    /\ UNCHANGED <<env, entry, clock>>

\* The call enters the blocking operation o and keeps the thread.
Block(o, n) ==
    /\ pc' = "waiting"
    /\ op' = o
    /\ running' = TRUE
    /\ outbound' = n
    /\ result' = PyNone

\* The call ends: its result goes to the runtime and the thread is free.
Finish(out) ==
    /\ pc' = IF out.kind = "return" THEN "returned" ELSE "raised"
    /\ result' = IF out.kind = "return" THEN out.v
                 ELSE [t |-> "exception", v |-> out.e.cls]
    /\ running' = FALSE

Waiting(t) == running /\ pc = "waiting" /\ tool = t

\* ------------------------------------------------------------ tool actions
\* get_weather up to requests.get (no timeout argument).
GetWeatherCall(city) ==
    /\ Begin("get_weather", [city |-> city])
    /\ Block("GET wttr.in", 1)
    /\ recipients' = <<>>
    /\ UNCHANGED fs

\* requests.get ends; the tool runs to its return.
GetWeatherReply(r) ==
    /\ Waiting("get_weather")
    /\ seen' = r
    /\ Finish(GetWeatherOutcome(args.city, r))
    /\ UNCHANGED <<env, entry, pending, tool, args, recipients, op, outbound, writes,
                   smtp, fs, clock>>

\* A chat tool up to requests.post: the credential check, then the request.
ChatCall(t, a) ==
    /\ Begin(t, a)
    /\ IF ~Truthy(env["OPENROUTER_API_KEY"])
       THEN /\ Finish(Return(PyStr(ChatMissingKey(t))))
            /\ outbound' = 0
            /\ op' = "none"
       ELSE Block("POST openrouter.ai", 1)
    /\ recipients' = <<>>
    /\ UNCHANGED fs

\* requests.post ends; the tool runs to its return.
ChatReply(t, r) ==
    /\ Waiting(t)
    /\ seen' = r
    /\ Finish(ChatOutcome(t, r))
    /\ UNCHANGED <<env, entry, pending, tool, args, recipients, op, outbound, writes,
                   smtp, fs, clock>>

SearchWebCall(query) == ChatCall("search_web", [query |-> query])
SearchWebReply(r) == ChatReply("search_web", r)

GenerateCodeCall(prompt) == ChatCall("generate_code", [prompt |-> prompt])
GenerateCodeReply(r) == ChatReply("generate_code", r)

\* timeout=30: requests gives up on a peer that stays silent.
RequestTimeout == 30
GenerateCodeTimeout ==
    ChatReply("generate_code",
              Raise(Exc("Timeout", "Read timed out. (read timeout=30)")))

WriteEssayCall(topic, words) == ChatCall("write_essay", [topic |-> topic, words |-> words])
WriteEssayReply(r) == ChatReply("write_essay", r)

\* send_email up to smtplib.SMTP(...): the credential check, the message,
\* the recipient list, then the connection.
SendEmailCall(to_email, subject, message, cc_email) ==
    /\ Begin("send_email", [to_email |-> to_email, subject |-> subject,
                            message |-> message, cc_email |-> cc_email])
    /\ IF EmailCredsMissing(env["GMAIL_USER"], env["GMAIL_APP_PASSWORD"])
       THEN /\ Finish(Return(PyStr(EmailNotConfigured)))
            /\ outbound' = 0
            /\ op' = "none"
            /\ recipients' = <<>>
       ELSE /\ recipients' = Recipients(to_email, cc_email)
            /\ Block("connect", 1)
    /\ UNCHANGED fs

\* The blocking call on the server object succeeds: the next statement.
SendEmailStepOk ==
    /\ Waiting("send_email")
    /\ smtp' = SmtpDone(smtp, op, env["GMAIL_USER"].v, recipients)
    /\ IF op = "quit"
       THEN /\ seen' = Ok(PyNone)
            /\ Finish(Return(PyStr(EmailSent(args.to_email))))
            /\ UNCHANGED <<op, outbound>>
       ELSE /\ op' = SmtpOps[Len(smtp.log) + 2]
            /\ UNCHANGED <<seen, pc, result, running, outbound>>
    /\ UNCHANGED <<env, entry, pending, tool, args, recipients, writes, fs, clock>>

\* The blocking call on the server object raises: the except clauses.
SendEmailStepFails(e) ==
    /\ Waiting("send_email")
    /\ e \in SmtpFaults(op)
    /\ smtp' = SmtpFailed(smtp, op, e)
    /\ seen' = Raise(e)
    /\ Finish(SendEmailHandler(e))
    /\ UNCHANGED <<env, entry, pending, tool, args, recipients, op, outbound, writes,
                   fs, clock>>

\* generate_ai_image up to client.images.generate: the prompt check, the
\* credential check, then the request.
GenerateAiImageCall(prompt) ==
    /\ Begin("generate_ai_image", [prompt |-> prompt])
    /\ IF PromptRejected(prompt)
       THEN /\ Finish(Return(PyStr(ImagePromptInvalid)))
            /\ outbound' = 0
            /\ op' = "none"
       ELSE IF ~Truthy(env["TOGETHER_API_KEY"])
       THEN /\ Finish(Return(PyStr(ImageMissingKey)))
            /\ outbound' = 0
            /\ op' = "none"
       ELSE Block("images.generate", 1)
    /\ recipients' = <<>>
    /\ UNCHANGED fs

\* client.images.generate ends; the tool saves the image and runs to its return.
GenerateAiImageReply(r, fault) ==
    /\ Waiting("generate_ai_image")
    /\ fault = "none" \/ ReachesSave(r)
    /\ seen' = [kind |-> "image", reply |-> r, fault |-> fault]
    /\ LET s == IF r.kind = "raise" THEN Step(r, fs, 0)
                ELSE ImageBody(args.prompt, r.v, fs, clock, fault)
       IN /\ fs' = s.files
          /\ writes' = s.opened
          /\ Finish(IF s.out.kind = "raise" THEN ImageHandler(s.out.e) ELSE s.out)
    /\ UNCHANGED <<env, entry, pending, tool, args, recipients, op, outbound, smtp, clock>>

Queries == {"capital of France?"}
Addresses == {"a@x.org"}
CcValues == {PyNone, PyStr(""), PyStr("c@x.org")}

Next ==
    \/ EntryConnect
    \/ EntryStart
    \/ EntryGreet
    \/ Invoke
    \/ Tick
    \/ \E city \in Cities : GetWeatherCall(city)
    \/ \E r \in WeatherReplies : GetWeatherReply(r)
    \/ \E q \in Queries : SearchWebCall(q)
    \/ \E r \in ChatReplies : SearchWebReply(r)
    \/ \E q \in Queries : GenerateCodeCall(q)
    \/ \E r \in ChatReplies : GenerateCodeReply(r)
    \/ GenerateCodeTimeout
    \/ \E q \in Queries : WriteEssayCall(q, 500)
    \/ \E r \in ChatReplies : WriteEssayReply(r)
    \/ \E to \in Addresses, cc \in CcValues : SendEmailCall(to, "Hi", "Hello", cc)
    \/ SendEmailStepOk
    \/ \E o \in 1..Len(SmtpOps) : \E e \in SmtpFaults(SmtpOps[o]) : SendEmailStepFails(e)
    \/ \E p \in Prompts : GenerateAiImageCall(p)
    \/ \E r \in ImageReplies, f \in FsFaults : GenerateAiImageReply(r, f)

Spec == Init /\ [][Next]_vars

\* requests.post(..., timeout=30) gives up by itself; every other step of a
\* call waits on the remote side, which owes nothing.
FairSpec == Spec /\ WF_vars(GenerateCodeTimeout)

\* ------------------------------------------------------------------ claims
Tools == ChatTools \cup {"get_weather", "send_email", "generate_ai_image"}

\* The variable is absent or empty.
Unset(n) == env[n] \in {PyNone, PyStr("")}

\* The prompt is empty, not a string, or has fewer than 3 characters once
\* the whitespace around it is removed.
ShortPrompt(p) == p.t # "str" \/ p.v = "" \/ Len(Strip(p.v)) < 3

PromptInvalidText == "Please provide a clear description of the image you want."

\* C1: a tool call that has ended has handed back exactly one value, a
\* string; no exception leaves the tool and no path ends without a value,
\* whatever the external dependency did.
C1_AlwaysString ==
    /\ pc # "raised"
    /\ pc = "returned" => tool \in Tools /\ result.t = "str"
    /\ pc = "waiting" => result = PyNone

C1_Witness ==
    /\ pc = "returned" /\ tool = "generate_ai_image"
    /\ seen.kind = "image" /\ seen.fault = "open"
    /\ result = PyStr("Image generation failed: [Errno 13] Permission denied")

\* The tool of the current call lacks a credential it requires.
MissingCredential ==
    CASE tool \in ChatTools -> Unset("OPENROUTER_API_KEY")
      [] tool = "generate_ai_image" -> Unset("TOGETHER_API_KEY")
      [] tool = "send_email" -> Unset("GMAIL_USER") \/ Unset("GMAIL_APP_PASSWORD")
      [] OTHER -> FALSE

CredentialText ==
    CASE tool = "search_web" -> "OpenRouter API key not found. Please check your .env file."
      [] tool = "generate_code" -> "Missing OpenRouter API key. Please check your .env file."
      [] tool = "write_essay" -> "OpenRouter API key is missing. Please check your .env file."
      [] tool = "generate_ai_image" ->
            "Together AI API key not found. Please check your .env file."
      [] tool = "send_email" -> "Email sending failed: Gmail credentials not configured."

\* C2 as stated: with a required credential absent or empty, the call makes
\* no outbound call and returns its tool's credential message, for any
\* arguments.
C2_Original ==
    (pc # "none" /\ MissingCredential) =>
        /\ outbound = 0 /\ smtp = NoSession
        /\ pc = "returned"
        /\ result = PyStr(CredentialText)

\* C2 amended: with a required credential absent or empty, the call makes no
\* outbound call and returns its tool's credential message, except that
\* generate_ai_image with a prompt that fails validation returns the
\* validation message instead (still without an outbound call).
C2_MissingCredential ==
    (pc # "none" /\ MissingCredential) =>
        /\ outbound = 0 /\ smtp = NoSession
        /\ pc = "returned"
        /\ result = IF tool = "generate_ai_image" /\ ShortPrompt(args.prompt)
                    THEN PyStr(PromptInvalidText)
                    ELSE PyStr(CredentialText)

C2_Witness ==
    /\ pc = "returned" /\ tool = "send_email"
    /\ ~Unset("GMAIL_USER") /\ Unset("GMAIL_APP_PASSWORD")
    /\ outbound = 0
    /\ result = PyStr("Email sending failed: Gmail credentials not configured.")

\* C3: generate_ai_image with a prompt that is empty, not a string or
\* shorter than 3 characters after trimming returns the validation message
\* with no outbound call and no file write, with or without the image
\* credential; a prompt of at least 3 trimmed characters never gets the
\* validation message.
C3_PromptValidation ==
    (tool = "generate_ai_image" /\ pc # "none") =>
        IF ShortPrompt(args.prompt)
        THEN /\ pc = "returned"
             /\ result = PyStr(PromptInvalidText)
             /\ outbound = 0 /\ writes = 0
        ELSE result # PyStr(PromptInvalidText)

C3_Witness ==
    /\ tool = "generate_ai_image" /\ pc = "returned"
    /\ args.prompt = PyStr(" a ")
    /\ ~Unset("TOGETHER_API_KEY")
    /\ result = PyStr(PromptInvalidText)
    /\ outbound = 0

\* What the image service answered in the call that has returned: the first
\* item of the response's data, its base64 payload and its URL.
ImageDone == tool = "generate_ai_image" /\ pc = "returned"
HasItem ==
    /\ seen.kind = "image" /\ seen.reply.kind = "ok"
    /\ seen.reply.v.t = "obj" /\ "data" \in DOMAIN seen.reply.v.v
    /\ seen.reply.v.v.data.t = "list" /\ Len(seen.reply.v.v.data.v) > 0
FirstItem == seen.reply.v.v.data.v[1]
CarriesPayload ==
    /\ HasItem /\ "b64_json" \in DOMAIN FirstItem.v
    /\ FirstItem.v.b64_json.t = "str" /\ FirstItem.v.b64_json.v # ""
CarriesUrl ==
    /\ HasItem /\ "url" \in DOMAIN FirstItem.v
    /\ FirstItem.v.url.t = "str" /\ FirstItem.v.url.v # ""

\* The payloads that are base64, with the bytes they encode.
ValidPayloads == {"QQ==", "Qg=="}
ExpectedBytes(b) == IF b = "QQ==" THEN <<65>> ELSE <<66>>

\* path is <image directory>/ai_image_<YYYYMMDD_HHMMSS>.png
IsImageName(path) ==
    LET pre == "/home/user/Pictures/ai_image_"
        n == Len(pre)
    IN /\ Len(path) = n + 19
       /\ SubSeq(path, 1, n) = pre
       /\ SubSeq(path, n + 16, n + 19) = ".png"
       /\ \A i \in 1..15 :
             LET ch == SubSeq(path, n + i, n + i) IN
             IF i = 9 THEN ch = "_"
             ELSE ch \in {"0", "1", "2", "3", "4", "5", "6", "7", "8", "9"}

ImageFailedText(r) ==
    r.t = "str" /\ Len(r.v) >= 25 /\ SubSeq(r.v, 1, 25) = "Image generation failed: "

\* C4 as stated: a call writes a file exactly when the first item carries a
\* base64 payload, and then it writes one file of the timestamp name and
\* returns the success text with its path; with a URL and no payload it
\* writes none and the text embeds the URL.
C4_Original ==
    ImageDone =>
        /\ writes \in {0, 1}
        /\ writes = 1 <=> CarriesPayload
        /\ CarriesPayload =>
              \E f \in fs : IsImageName(f.path) /\ Contains(result.v, f.path)
        /\ (~CarriesPayload /\ CarriesUrl) => Contains(result.v, FirstItem.v.url.v)

\* C4 amended: a call writes a file only when the first item carries a base64
\* payload.  When the payload decodes and the file is saved without error, the
\* call writes exactly one file ai_image_<YYYYMMDD_HHMMSS>.png holding the
\* decoded bytes and returns the success text with that path.  When the payload does
\* not decode or the file cannot be created, no file is written and the
\* failure text is returned.  With a URL and no payload no file is written
\* and the text embeds the URL; on validation failure, missing credential or
\* a response without usable data no file is written.
C4_FileWritten ==
    ImageDone =>
        /\ writes \in {0, 1}
        /\ writes = 1 => CarriesPayload
        /\ CarriesPayload =>
              LET b == FirstItem.v.b64_json.v IN
              IF b \in ValidPayloads /\ seen.fault = "none"
              THEN /\ writes = 1
                   /\ \E f \in fs :
                         /\ IsImageName(f.path)
                         /\ f.bytes = ExpectedBytes(b)
                         /\ Contains(result.v, "Saved to: '" \o f.path \o "'")
              ELSE writes = 0 /\ ImageFailedText(result)
        /\ (~CarriesPayload /\ CarriesUrl) =>
              /\ writes = 0
              /\ Contains(result.v, "<img src=\"" \o FirstItem.v.url.v \o "\"")
        /\ (~CarriesPayload /\ ~CarriesUrl) => writes = 0

C4_Witness ==
    /\ ImageDone /\ CarriesPayload /\ CarriesUrl
    /\ writes = 1
    /\ Contains(result.v, "Saved to: '/home/user/Pictures/ai_image_20250101_000001.png'")

\* The SMTP-level errors other than the authentication failure.
SmtpProtocolErrors ==
    {"SMTPException", "SMTPResponseException", "SMTPConnectError",
     "SMTPNotSupportedError", "SMTPServerDisconnected", "SMTPRecipientsRefused"}

EmailDone == tool = "send_email" /\ pc = "returned" /\ ~MissingCredential

AuthText ==
    "Email sending failed: Authentication error. Please check your Gmail credentials."
SmtpText(detail) == "Email sending failed: SMTP error - " \o detail
OtherText(detail) == "An error occurred while sending email: " \o detail

\* C5: with both credentials set, an authentication failure gives the
\* authentication text, another SMTP error the SMTP text with its detail, any
\* other exception the generic text with its detail, the three being
\* different texts; the confirmation naming the recipient is returned only
\* when every step succeeded.
C5_FailureMessages ==
    EmailDone =>
        IF seen.kind = "raise"
        THEN /\ result.v # "Email sent successfully to " \o args.to_email
             /\ Cardinality({AuthText, SmtpText(seen.e.msg), OtherText(seen.e.msg)}) = 3
             /\ result.v =
                   IF seen.e.cls = "SMTPAuthenticationError" THEN AuthText
                   ELSE IF seen.e.cls \in SmtpProtocolErrors THEN SmtpText(seen.e.msg)
                   ELSE OtherText(seen.e.msg)
        ELSE /\ smtp.log = <<"connect", "starttls", "login", "sendmail", "quit">>
             /\ result.v = "Email sent successfully to " \o args.to_email

C5_Witness ==
    /\ EmailDone /\ seen.kind = "raise"
    /\ seen.e.cls = "SMTPAuthenticationError"
    /\ smtp.log = <<"connect", "starttls">>
    /\ result.v = AuthText

WeatherDone == tool = "get_weather" /\ pc = "returned"

\* The bodies the endpoint sends, trimmed.
Trimmed(text) == IF text = "London: +20C\n" THEN "London: +20C" ELSE ""

CouldNotText(city) == "Could not retrieve weather for " \o city \o "."
ErrorText(city) == "An error occurred while retrieving weather for " \o city \o "."

\* C6 as stated: on an HTTP success status the result is the trimmed body, on
\* any other status or an exception a failure text naming the city.
C6_Original ==
    WeatherDone =>
        IF seen.kind = "response" /\ seen.status \in 200..299
        THEN result.v = Trimmed(seen.text)
        ELSE /\ result.v \in {CouldNotText(args.city), ErrorText(args.city)}
             /\ Contains(result.v, args.city)

\* C6 amended: on status 200 the result is the trimmed body; on any other
\* status, the other success statuses included, it is "Could not retrieve
\* weather for <city>." and on an exception "An error occurred while
\* retrieving weather for <city>.", both naming the city.
C6_Status200 ==
    WeatherDone =>
        /\ result.v = IF seen.kind = "raise" THEN ErrorText(args.city)
                      ELSE IF seen.status = 200 THEN Trimmed(seen.text)
                      ELSE CouldNotText(args.city)
        /\ (seen.kind = "raise" \/ seen.status # 200) => Contains(result.v, args.city)

C6_Witness ==
    /\ WeatherDone /\ seen.kind = "response"
    /\ seen.status = 203 /\ seen.text = "London: +20C\n"
    /\ result.v = "Could not retrieve weather for Oslo."

\* C7: every tool call that has entered a blocking operation eventually
\* returns, whatever the remote side does.
C7_Terminates == (pc = "waiting") ~> (pc = "returned")

\* Under FairSpec the one call with a request timeout does return, whatever
\* the remote side does.
GenerateCodeReturns == (pc = "waiting" /\ tool = "generate_code") ~> (pc = "returned")

\* A scheduled tool call starts.
StartCall ==
    \/ \E city \in Cities : GetWeatherCall(city)
    \/ \E q \in Queries : SearchWebCall(q)
    \/ \E q \in Queries : GenerateCodeCall(q)
    \/ \E q \in Queries : WriteEssayCall(q, 500)
    \/ \E to \in Addresses, cc \in CcValues : SendEmailCall(to, "Hi", "Hello", cc)
    \/ \E p \in Prompts : GenerateAiImageCall(p)

\* The entrypoint coroutine takes its next step.
EntryStep == EntryConnect \/ EntryStart \/ EntryGreet

\* C8: while a tool call waits in its blocking operation, another task that
\* is ready -- a scheduled tool call, the session's greeting -- can take a step.
C8_OthersProceed ==
    pc = "waiting" =>
        /\ pending > 0 => ENABLED StartCall
        /\ entry # "done" => ENABLED EntryStep

\* C9: a file of the image directory is never modified, replaced or deleted
\* by a later step.
C9_CreateOnce == [][\A f \in fs : f \in fs']_vars

\* C10: the SMTP calls of send_email happen in the order connect, STARTTLS,
\* login, sendmail (once, to To plus Cc), quit, and a session that was opened
\* is closed when send_email returns, on every path.
C10_SessionClosed ==
    (tool = "send_email" /\ pc = "returned") =>
        /\ smtp.log = SubSeq(SmtpOps, 1, Len(smtp.log))
        /\ Len(smtp.sent) <= 1
        /\ smtp.sent # <<>> =>
              /\ Len(smtp.log) >= 4
              /\ smtp.sent[1][2] = IF Truthy(args.cc_email)
                                   THEN <<args.to_email, args.cc_email.v>>
                                   ELSE <<args.to_email>>
        /\ ~smtp.open

==========================================================================
